---- MODULE Spec2Model ----
(***************************************************************************)
(* A model of src/async-data.ts: the memoizing cache wrapper asyncCache    *)
(* (memoizedFunc, isEntryExpired, deleteCache, clearCache) and the chunked *)
(* batch executor batchPromiseAllSettled, on a single-threaded event loop; *)
(* and of composeAsync and once of src/functional.ts.                      *)
(*                                                                         *)
(* Spec        : one asyncCache wrapper, its callers, the clock and the    *)
(*               queue of await continuations (microtasks).                *)
(* KeySpec     : the same wrapper, called with object arguments.           *)
(* BatchSpec   : one call of batchPromiseAllSettled over promises that the *)
(*               caller constructed (and thereby started) beforehand.      *)
(* NegativeChunkSpec : the same call with a negative chunkSize.            *)
(* ComposeSpec : one function made by composeAsync, and its invocations.   *)
(* OnceSpec    : one wrapper made by once, and the calls of it.            *)
(***************************************************************************)
EXTENDS Integers, Sequences, FiniteSets, TLC

VARIABLES
    ttl,            \* asyncCache's ttl parameter: Undefined or Some(minutes)
    now,            \* the reading of Date.now(), in milliseconds
    cache,          \* the Map: a function from the keys present to entries
    pc,             \* per caller: where its memoizedFunc call stands
    cargs,          \* per caller: the argument list of its call
    result,         \* per caller: f's outcome, then the call's outcome
    microtasks,     \* callers whose await continuation is queued, FIFO
    fCalls,         \* per argument list: how often func was invoked
    lastValue,      \* per key: what func last resolved to for it (history)
    raced,          \* per key: the caller issued first in an overlap (history)
    lastOp,         \* the invalidation the last step performed, if any
    promises,       \* batch: the promises handed to batchPromiseAllSettled
    chunkSize,      \* batch: the chunkSize argument
    bpc,            \* batch: where the executor stands
    index,          \* batch: the loop variable index
    chunk,          \* batch: positions of the promises being awaited now
    awaited,        \* batch: positions whose settlement was awaited so far (history)
    finalResults,   \* batch: {resolved, rejected}
    order,          \* batch: positions of the promises that settled since
                    \* the model's first state, in settling order (history)
    funcs,          \* compose: the array funcs the composed function closes over
    cpc,            \* compose: per invocation, where it stands
    cpos,           \* compose: per invocation, the index of its array iterator
    applied,        \* compose: per invocation, the functions it called, in
                    \* calling order, each named by its position in the
                    \* argument list of composeAsync (history)
    cstarted,       \* compose: how many invocations were started
    called,         \* once: the closure variable called
    oresult,        \* once: the closure variable result
    ostack,         \* once: the calls of the wrapper that are running
    oexecs,         \* once: how often func was executed
    ocalls,         \* once: how many calls of the wrapper were started
    olog,           \* once: the calls that ended and how (history)
    wcache,         \* two wrappers: per Map, its entries
    wpc,            \* two wrappers: per wrapper, where its caller's call stands
    wargs,          \* two wrappers: per wrapper, the argument list of the call
    wresult,        \* two wrappers: per wrapper, f's outcome, then the call's
    wqueue,         \* two wrappers: wrappers whose continuation is queued, FIFO
    wcalls,         \* two wrappers: how often the wrapped function was invoked
    wlast           \* two wrappers: the invalidation the last step performed

cacheVars == <<ttl, now, cache, pc, cargs, result, microtasks, fCalls, lastValue, raced, lastOp>>
batchVars == <<promises, chunkSize, bpc, index, chunk, awaited, finalResults, order>>
composeVars == <<funcs, cpc, cpos, applied, cstarted>>
onceVars == <<called, oresult, ostack, oexecs, ocalls, olog>>
isolationVars == <<wcache, wpc, wargs, wresult, wqueue, wcalls, wlast>>
vars == <<ttl, now, cache, pc, cargs, result, microtasks, fCalls, lastValue, raced, lastOp,
          promises, chunkSize, bpc, index, chunk, awaited, finalResults, order,
          funcs, cpc, cpos, applied, cstarted,
          called, oresult, ostack, oexecs, ocalls, olog,
          wcache, wpc, wargs, wresult, wqueue, wcalls, wlast>>
notCache == <<batchVars, composeVars, onceVars, isolationVars>>
notBatch == <<cacheVars, composeVars, onceVars, isolationVars>>
notCompose == <<cacheVars, batchVars, onceVars, isolationVars>>
notOnce == <<cacheVars, batchVars, composeVars, isolationVars>>
notIsolation == <<cacheVars, batchVars, composeVars, onceVars>>

----------------------------------------------------------------------------
(* Bounds of the model.                                                    *)

MaxFCalls == 2
MaxTtl == 1
MaxMinutes == 1
MaxOps == 4

(* Program constants.                                                      *)
millisecondsPerMinute == 60 * 1000
FarFuture == 1000000000

(* An optional number: << >> when undefined, <<n>> when n was passed.       *)
Undefined == << >>
Some(n) == <<n>>
ValueOf(opt) == opt[1]
Callers == {"c1", "c2"}

(* Argument values: a string, or an object given by its properties        *)
(* <<name, value>> in insertion order.                                     *)
Str(s) == <<"string", s>>
Obj(props) == <<"object", props>>

(* Argument lists the callers use: the empty list, and one-string lists.   *)
ArgLists == {<<>>, <<Str("genericKey")>>}

(* Argument lists of one object: the same properties, inserted in two      *)
(* orders.                                                                 *)
ObjectArgLists ==
    {<<Obj(<<<<"a", Str("x")>>, <<"b", Str("y")>>>>)>>,
     <<Obj(<<<<"b", Str("y")>>, <<"a", Str("x")>>>>)>>}

(* What func may resolve to, and what it may throw or reject with.         *)
Values == {"v1", "v2"}
Errors == {"err"}

(* Clock readings: every whole minute, the millisecond after it, and one   *)
(* far in the future.                                                      *)
Times ==
    {t \in {m * millisecondsPerMinute + d : m \in 0..MaxMinutes, d \in {0, 1}} : t >= 0}
        \cup {FarFuture}

SeqSum(f, S) ==
    LET RECURSIVE Sum(_)
        Sum(T) == IF T = {} THEN 0
                  ELSE LET x == CHOOSE y \in T : TRUE IN f[x] + Sum(T \ {x})
    IN Sum(S)

TotalFCalls == SeqSum(fCalls, DOMAIN fCalls)

None == "none"

(* lastOp when the last step was no invalidation.                          *)
NoOp == [op |-> "other", args |-> << >>]

----------------------------------------------------------------------------
(* asyncCache                                                              *)

(* JSON.stringify of a string: the string in double quotes.                *)
StringifyString(s) == "\"" \o s \o "\""

(* JSON.stringify of a value: a string, or an object as {"name":value,...} *)
(* with its properties in insertion order.                                 *)
RECURSIVE StringifyValue(_), StringifyProps(_)
StringifyValue(v) ==
    IF v[1] = "string" THEN StringifyString(v[2])
    ELSE "{" \o StringifyProps(v[2]) \o "}"
StringifyProps(ps) ==
    IF Len(ps) = 0 THEN ""
    ELSE StringifyString(ps[1][1]) \o ":" \o StringifyValue(ps[1][2])
            \o (IF Len(ps) = 1 THEN "" ELSE "," \o StringifyProps(Tail(ps)))

(* JSON.stringify of an array: [e1,e2,...].                                *)
RECURSIVE StringifyElems(_)
StringifyElems(a) ==
    IF Len(a) = 0 THEN ""
    ELSE IF Len(a) = 1 THEN StringifyValue(a[1])
    ELSE StringifyValue(a[1]) \o "," \o StringifyElems(Tail(a))

JSONstringify(a) == "[" \o StringifyElems(a) \o "]"

KeyOfStringifyOnly(args) == JSONstringify(args)

KeyOfFirstArgument(args) == IF Len(args) = 0 THEN "genericKey" ELSE args[1][2]

(* const key = args.length === 0 ? "genericKey" : JSON.stringify(args)     *)
KeyOf(args) == IF Len(args) = 0 THEN "genericKey" ELSE JSONstringify(args)

cacheKeyStringifyOnly(args) == JSONstringify(args)

(* const cacheKey = args.length === 0 ? "genericKey" : JSON.stringify(args) *)
cacheKey(args) == IF Len(args) = 0 THEN "genericKey" ELSE JSONstringify(args)

Keys == {KeyOf(a) : a \in ArgLists}

(* cache.has(key), cache.set(key, entry), cache.delete(key)                *)
CacheHas(k) == k \in DOMAIN cache
CacheSet(m, k, e) == [x \in (DOMAIN m) \cup {k} |-> IF x = k THEN e ELSE m[x]]
CacheDelete(m, k) == [x \in (DOMAIN m) \ {k} |-> m[x]]
EmptyMap == << >>

isEntryExpiredAtTtl(timestamp) ==
    IF ttl = Undefined THEN FALSE
    ELSE LET timeDifference == now - timestamp
             ttlMilliseconds == ValueOf(ttl) * millisecondsPerMinute
         IN  timeDifference >= ttlMilliseconds

isEntryExpiredNoGuard(timestamp) ==
    LET timeDifference == now - timestamp
        ttlMilliseconds == (IF ttl = Undefined THEN 0 ELSE ValueOf(ttl)) * millisecondsPerMinute
    IN  timeDifference > ttlMilliseconds

isEntryExpired(timestamp) ==
    IF ttl = Undefined THEN FALSE
    ELSE LET timeDifference == now - timestamp
             ttlMilliseconds == ValueOf(ttl) * millisecondsPerMinute
         IN  timeDifference > ttlMilliseconds

EntryUsableNegated(k) == CacheHas(k) /\ isEntryExpired(cache[k].timestamp)

(* entry && !isEntryExpired(entry.timestamp)                               *)
EntryUsable(k) == CacheHas(k) /\ ~isEntryExpired(cache[k].timestamp)

Ok(v) == [status |-> "fulfilled", value |-> v]
Err(e) == [status |-> "rejected", value |-> e]
NoResult == [status |-> None, value |-> None]
Outcomes == {Ok(v) : v \in Values} \cup {Err(e) : e \in Errors}

(* How func(...args) ends synchronously: it throws, returns a plain value, *)
(* or returns a promise that settles later.                                *)
FuncReturns == [kind : {"throws"}, value : Errors]
                  \cup [kind : {"value"}, value : Values]
                  \cup [kind : {"promise"}, value : {"pending"}]

InFlight(c) == pc[c] \in {"awaiting", "queued"}

CacheAfterHitRefreshed(k) ==
    CacheSet(cache, k, [timestamp |-> now, value |-> cache[k].value])

(* if (entry && !isEntryExpired(entry.timestamp)) return entry.value: the  *)
(* map after a hit. The entry is read and nothing is set.                  *)
CacheAfterHit(k) == cache

(* memoizedFunc up to its first suspension: the lookup, and on a miss the  *)
(* call of func.                                                           *)
memoizedFunc(c, args) ==
    /\ pc[c] \in {"idle", "done", "failed"}
    /\ LET k == KeyOf(args)
       IN  IF EntryUsable(k)
           THEN /\ pc' = [pc EXCEPT ![c] = "done"]
                /\ result' = [result EXCEPT ![c] = Ok(cache[k].value)]
                /\ cache' = CacheAfterHit(k)
                /\ UNCHANGED <<fCalls, microtasks, lastValue, raced>>
           ELSE /\ TotalFCalls < MaxFCalls
                /\ UNCHANGED cache
                /\ fCalls' = [fCalls EXCEPT ![args] = @ + 1]
                /\ raced' = IF \E d \in Callers \ {c} : InFlight(d) /\ KeyOf(cargs[d]) = k
                            THEN [raced EXCEPT ![k] =
                                    CHOOSE d \in Callers \ {c} : InFlight(d) /\ KeyOf(cargs[d]) = k]
                            ELSE raced
                /\ \E fr \in FuncReturns :
                   CASE fr.kind = "throws" ->
                          /\ pc' = [pc EXCEPT ![c] = "failed"]
                          /\ result' = [result EXCEPT ![c] = Err(fr.value)]
                          /\ UNCHANGED <<microtasks, lastValue>>
                     [] fr.kind = "value" ->
                          /\ pc' = [pc EXCEPT ![c] = "queued"]
                          /\ result' = [result EXCEPT ![c] = Ok(fr.value)]
                          /\ microtasks' = Append(microtasks, c)
                          /\ lastValue' = [lastValue EXCEPT ![k] = fr.value]
                     [] fr.kind = "promise" ->
                          /\ pc' = [pc EXCEPT ![c] = "awaiting"]
                          /\ result' = [result EXCEPT ![c] = NoResult]
                          /\ UNCHANGED <<microtasks, lastValue>>
    /\ cargs' = [cargs EXCEPT ![c] = args]
    /\ lastOp' = NoOp
    /\ UNCHANGED <<ttl, now>>

(* The promise func returned settles: the continuation of the await is     *)
(* queued as a microtask.                                                  *)
FuncSettles(c, outcome) ==
    /\ pc[c] = "awaiting"
    /\ pc' = [pc EXCEPT ![c] = "queued"]
    /\ result' = [result EXCEPT ![c] = outcome]
    /\ microtasks' = Append(microtasks, c)
    /\ lastValue' = IF outcome.status = "fulfilled"
                    THEN [lastValue EXCEPT ![KeyOf(cargs[c])] = outcome.value]
                    ELSE lastValue
    /\ lastOp' = NoOp
    /\ UNCHANGED <<ttl, now, cache, cargs, fCalls, raced>>

WriteEntryEvenIfRejected(c, k) ==
    CacheSet(cache, k, [timestamp |-> now, value |-> result[c].value])

WriteEntryKeepFirst(c, k) ==
    IF result[c].status = "fulfilled" /\ ~CacheHas(k)
    THEN CacheSet(cache, k, [timestamp |-> now, value |-> result[c].value])
    ELSE cache

WriteEntryKeepTimestamp(c, k) ==
    IF result[c].status = "fulfilled"
    THEN CacheSet(cache, k, [timestamp |-> IF CacheHas(k) THEN cache[k].timestamp ELSE now,
                             value |-> result[c].value])
    ELSE cache

WriteEntryUnlessInvalidated(c, k) ==
    IF result[c].status = "fulfilled" /\ lastOp.op = "other"
    THEN CacheSet(cache, k, [timestamp |-> now, value |-> result[c].value])
    ELSE cache

(* cache.set(key, { timestamp: Date.now(), value: result }), reached only  *)
(* when the await did not throw: the map afterwards.                       *)
WriteEntry(c, k) ==
    IF result[c].status = "fulfilled"
    THEN CacheSet(cache, k, [timestamp |-> now, value |-> result[c].value])
    ELSE cache

(* memoizedFunc after the await, run by the event loop as the oldest       *)
(* queued continuation: the write and the return, or the throw.            *)
memoizedFuncResume ==
    /\ Len(microtasks) > 0
    /\ LET c == Head(microtasks)
       IN  /\ cache' = WriteEntry(c, KeyOf(cargs[c]))
           /\ pc' = [pc EXCEPT ![c] = IF result[c].status = "fulfilled" THEN "done" ELSE "failed"]
           /\ microtasks' = Tail(microtasks)
           /\ lastOp' = NoOp
    /\ UNCHANGED <<ttl, now, cargs, result, fCalls, lastValue, raced>>

deleteCache(args) ==
    /\ cache' = CacheDelete(cache, cacheKey(args))
    /\ lastOp' = [op |-> "delete", args |-> args]
    /\ UNCHANGED <<ttl, now, pc, cargs, result, microtasks, fCalls, lastValue, raced>>

CacheClearExpiredOnly(m) ==
    [x \in {k \in DOMAIN m : ~isEntryExpired(m[k].timestamp)} |-> m[x]]

(* cache.clear()                                                           *)
CacheClear(m) == EmptyMap

clearCache ==
    /\ cache' = CacheClear(cache)
    /\ lastOp' = [op |-> "clear", args |-> << >>]
    /\ UNCHANGED <<ttl, now, pc, cargs, result, microtasks, fCalls, lastValue, raced>>

(* Date.now() moves forward, to the next reading the model distinguishes.  *)
Tick ==
    /\ \E t \in Times : t > now
    /\ now' = CHOOSE t \in Times : t > now /\ \A u \in Times : u > now => t <= u
    /\ lastOp' = NoOp
    /\ UNCHANGED <<ttl, cache, pc, cargs, result, microtasks, fCalls, lastValue, raced>>

BatchIdle ==
    /\ promises = << >>
    /\ chunkSize = 0
    /\ bpc = "idle"
    /\ index = 0
    /\ chunk = << >>
    /\ awaited = {}
    /\ finalResults = [resolved |-> << >>, rejected |-> << >>]
    /\ order = << >>

(* No function was composed.                                               *)
ComposeIdle ==
    /\ funcs = << >>
    /\ cpc = << >>
    /\ cpos = << >>
    /\ applied = << >>
    /\ cstarted = 0

(* No wrapper was made by once.                                            *)
OnceIdle ==
    /\ called = FALSE
    /\ oresult = None
    /\ ostack = << >>
    /\ oexecs = 0
    /\ ocalls = 0
    /\ olog = << >>

(* Two wrappers made by asyncCache(func) and asyncCache(func), of the same *)
(* func and without ttl; nothing was called yet.                           *)
Wrappers == {"w1", "w2"}

IsolationIdle ==
    /\ wcache = [w \in Wrappers |-> << >>]
    /\ wpc = [w \in Wrappers |-> "idle"]
    /\ wargs = [w \in Wrappers |-> << >>]
    /\ wresult = [w \in Wrappers |-> [status |-> "none", value |-> "none"]]
    /\ wqueue = << >>
    /\ wcalls = 0
    /\ wlast = [op |-> "other", args |-> << >>, wrapper |-> "none"]

CacheInit ==
    /\ ttl \in {Undefined} \cup {Some(n) : n \in 1..MaxTtl}
    /\ now = 0
    /\ cache = EmptyMap
    /\ pc = [c \in Callers |-> "idle"]
    /\ cargs = [c \in Callers |-> << >>]
    /\ result = [c \in Callers |-> NoResult]
    /\ microtasks = << >>
    /\ fCalls = [a \in ArgLists |-> 0]
    /\ lastValue = [k \in Keys |-> None]
    /\ raced = [k \in Keys |-> None]
    /\ lastOp = NoOp

Init == CacheInit /\ BatchIdle /\ ComposeIdle /\ OnceIdle /\ IsolationIdle

Next ==
    \/ \E c \in Callers, a \in DOMAIN fCalls : memoizedFunc(c, a) /\ UNCHANGED notCache
    \/ \E c \in Callers, o \in Outcomes : FuncSettles(c, o) /\ UNCHANGED notCache
    \/ memoizedFuncResume /\ UNCHANGED notCache
    \/ \E a \in DOMAIN fCalls : deleteCache(a) /\ UNCHANGED notCache
    \/ clearCache /\ UNCHANGED notCache
    \/ Tick /\ UNCHANGED notCache

Spec == Init /\ [][Next]_vars

(* The wrapper called with the argument lists of ObjectArgLists.           *)
KeyInit ==
    /\ ttl \in {Undefined} \cup {Some(n) : n \in 1..MaxTtl}
    /\ now = 0
    /\ cache = EmptyMap
    /\ pc = [c \in Callers |-> "idle"]
    /\ cargs = [c \in Callers |-> << >>]
    /\ result = [c \in Callers |-> NoResult]
    /\ microtasks = << >>
    /\ fCalls = [a \in ObjectArgLists |-> 0]
    /\ lastValue = [k \in {KeyOf(a) : a \in ObjectArgLists} |-> None]
    /\ raced = [k \in {KeyOf(a) : a \in ObjectArgLists} |-> None]
    /\ lastOp = NoOp
    /\ BatchIdle /\ ComposeIdle /\ OnceIdle /\ IsolationIdle

KeySpec == KeyInit /\ [][Next]_vars

----------------------------------------------------------------------------
(* batchPromiseAllSettled                                                  *)

(* What promise i fulfils with, and what it rejects with.                  *)
ValueOfOp(i) == <<"value", i>>
ReasonOfOp(i) == <<"reason", i>>

Pending == [status |-> "pending", value |-> << >>]
Fulfilled(i) == [status |-> "fulfilled", value |-> ValueOfOp(i)]
Rejected(i) == [status |-> "rejected", value |-> ReasonOfOp(i)]

ChunkSizes == 0..(MaxOps + 1)

Min(a, b) == IF a < b THEN a ELSE b
Max(a, b) == IF a > b THEN a ELSE b

SliceOneShort(len, start, end) ==
    LET from == IF start < 0 THEN Max(len + start, 0) ELSE Min(start, len)
        to == IF end - 1 < 0 THEN Max(len + end - 1, 0) ELSE Min(end - 1, len)
    IN  [j \in 1..Max(to - from, 0) |-> from + j]

SliceInclusiveEnd(len, start, end) ==
    LET from == IF start < 0 THEN Max(len + start, 0) ELSE Min(start, len)
        to == IF end + 1 < 0 THEN Max(len + end + 1, 0) ELSE Min(end + 1, len)
    IN  [j \in 1..Max(to - from, 0) |-> from + j]

(* promises.slice(start, end): the positions (counted from 1) of the       *)
(* elements the slice holds, with Array.prototype.slice's clamping.        *)
Slice(len, start, end) ==
    LET from == IF start < 0 THEN Max(len + start, 0) ELSE Min(start, len)
        to == IF end < 0 THEN Max(len + end, 0) ELSE Min(end, len)
    IN  [j \in 1..Max(to - from, 0) |-> from + j]

Range(f) == {f[x] : x \in DOMAIN f}

AwaitAsPromiseAll(ch) ==
    IF \E j \in 1..Len(ch) : promises[ch[j]].status = "rejected" THEN "rejected"
    ELSE IF \A j \in 1..Len(ch) : promises[ch[j]].status = "fulfilled" THEN "fulfilled"
    ELSE "pending"

AwaitAsFirstSettled(ch) ==
    IF Len(ch) = 0 \/ \E j \in 1..Len(ch) : promises[ch[j]].status # "pending"
    THEN "fulfilled" ELSE "pending"

AwaitAsPromiseAny(ch) ==
    IF \E j \in 1..Len(ch) : promises[ch[j]].status = "fulfilled" THEN "fulfilled"
    ELSE IF \A j \in 1..Len(ch) : promises[ch[j]].status = "rejected" THEN "rejected"
    ELSE "pending"

AwaitWithTimeout(ch) == "fulfilled"

(* The state of Promise.allSettled(ch): it fulfils once every promise of   *)
(* ch has settled, and never rejects.                                      *)
AllSettled(ch) ==
    IF \A j \in 1..Len(ch) : promises[ch[j]].status # "pending"
    THEN "fulfilled" ELSE "pending"

(* What Promise.allSettled(ch) fulfils with: one result per promise, in    *)
(* the order of ch.                                                        *)
AllSettledResults(ch) == [j \in 1..Len(ch) |-> promises[ch[j]]]

RECURSIVE PushResultsUnshift(_, _)
PushResultsUnshift(fr, results) ==
    IF Len(results) = 0 THEN fr
    ELSE LET r == Head(results)
         IN  IF r.status = "fulfilled"
             THEN PushResultsUnshift([fr EXCEPT !.resolved = <<r.value>> \o @], Tail(results))
             ELSE PushResultsUnshift([fr EXCEPT !.rejected = <<r.value>> \o @], Tail(results))

(* for (const result of results): push result.value to resolved when       *)
(* fulfilled, else result.reason to rejected.                              *)
RECURSIVE PushResults(_, _)
PushResults(fr, results) ==
    IF Len(results) = 0 THEN fr
    ELSE LET r == Head(results)
         IN  IF r.status = "fulfilled"
             THEN PushResults([fr EXCEPT !.resolved = Append(@, r.value)], Tail(results))
             ELSE PushResults([fr EXCEPT !.rejected = Append(@, r.value)], Tail(results))

(* The for loop's head at `at`: begin awaiting the next chunk, or return.  *)
LoopFrom(at) ==
    /\ index' = at
    /\ IF at < Len(promises)
       THEN /\ chunk' = Slice(Len(promises), at, at + chunkSize)
            /\ awaited' = awaited \cup Range(chunk')
            /\ bpc' = "awaitChunk"
       ELSE /\ chunk' = << >>
            /\ bpc' = "returned"
            /\ UNCHANGED awaited

(* The call, up to its first await.                                        *)
batchPromiseAllSettled ==
    /\ bpc = "ready"
    /\ finalResults' = [resolved |-> << >>, rejected |-> << >>]
    /\ IF chunkSize = 0
       THEN /\ chunk' = [j \in 1..Len(promises) |-> j]
            /\ awaited' = awaited \cup Range(chunk')
            /\ bpc' = "awaitAll"
            /\ UNCHANGED index
       ELSE LoopFrom(0)
    /\ UNCHANGED <<promises, chunkSize, order>>

(* const allResults = await Promise.allSettled(promises) resumes: the      *)
(* results are pushed and the call returns.                                *)
ResumeAll ==
    /\ bpc = "awaitAll"
    /\ AllSettled(chunk) # "pending"
    /\ IF AllSettled(chunk) = "rejected"
       THEN /\ bpc' = "rejected"
            /\ UNCHANGED finalResults
       ELSE /\ finalResults' = PushResults(finalResults, AllSettledResults(chunk))
            /\ bpc' = "returned"
    /\ chunk' = << >>
    /\ UNCHANGED <<promises, chunkSize, index, awaited, order>>

(* const chunkResults = await Promise.allSettled(chunk) resumes: the       *)
(* results are pushed, index advances and the loop goes on.                *)
ResumeChunk ==
    /\ bpc = "awaitChunk"
    /\ AllSettled(chunk) # "pending"
    /\ IF AllSettled(chunk) = "rejected"
       THEN /\ bpc' = "rejected"
            /\ chunk' = << >>
            /\ UNCHANGED <<finalResults, index, awaited>>
       ELSE /\ finalResults' = PushResults(finalResults, AllSettledResults(chunk))
            /\ LoopFrom(index + chunkSize)
    /\ UNCHANGED <<promises, chunkSize, order>>

SettleOnceAwaited(i, fulfils) ==
    /\ i \in awaited
    /\ promises[i].status = "pending"
    /\ promises' = [promises EXCEPT ![i] = IF fulfils THEN Fulfilled(i) ELSE Rejected(i)]
    /\ order' = Append(order, i)
    /\ UNCHANGED <<chunkSize, bpc, index, chunk, awaited, finalResults>>

(* A promise settles, whenever its own work ends: the caller started it    *)
(* when constructing it.                                                   *)
Settle(i, fulfils) ==
    /\ i \in 1..Len(promises)
    /\ promises[i].status = "pending"
    /\ promises' = [promises EXCEPT ![i] = IF fulfils THEN Fulfilled(i) ELSE Rejected(i)]
    /\ order' = Append(order, i)
    /\ UNCHANGED <<chunkSize, bpc, index, chunk, awaited, finalResults>>

CacheIdle ==
    /\ ttl = Undefined
    /\ now = 0
    /\ cache = EmptyMap
    /\ pc = [c \in Callers |-> "idle"]
    /\ cargs = [c \in Callers |-> << >>]
    /\ result = [c \in Callers |-> NoResult]
    /\ microtasks = << >>
    /\ fCalls = [a \in ArgLists |-> 0]
    /\ lastValue = [k \in Keys |-> None]
    /\ raced = [k \in Keys |-> None]
    /\ lastOp = NoOp

PromisesOfLength(n) ==
    {[i \in 1..n |-> CASE st[i] = "pending" -> Pending
                       [] st[i] = "fulfilled" -> Fulfilled(i)
                       [] st[i] = "rejected" -> Rejected(i)] :
        st \in [1..n -> {"pending", "fulfilled", "rejected"}]}

(* The arguments of the call: up to MaxOps promises, each pending or       *)
(* settled already, and a chunkSize.                                       *)
BatchInit ==
    /\ CacheIdle
    /\ \E n \in 0..MaxOps : promises \in PromisesOfLength(n)
    /\ chunkSize \in ChunkSizes
    /\ bpc = "ready"
    /\ index = 0
    /\ chunk = << >>
    /\ awaited = {}
    /\ finalResults = [resolved |-> << >>, rejected |-> << >>]
    /\ order = << >>
    /\ ComposeIdle
    /\ OnceIdle
    /\ IsolationIdle

BatchNext ==
    \/ batchPromiseAllSettled /\ UNCHANGED notBatch
    \/ ResumeAll /\ UNCHANGED notBatch
    \/ ResumeChunk /\ UNCHANGED notBatch
    \/ \E i \in 1..MaxOps, b \in BOOLEAN : Settle(i, b) /\ UNCHANGED notBatch

BatchSpec == BatchInit /\ [][BatchNext]_vars

(* The call is made, and the event loop runs the continuation of an await  *)
(* whose promise has fulfilled. Nothing obliges a supplied promise to      *)
(* settle.                                                                 *)
BatchFairSpec ==
    /\ BatchSpec
    /\ WF_vars(batchPromiseAllSettled /\ UNCHANGED notBatch)
    /\ WF_vars(ResumeAll /\ UNCHANGED notBatch)
    /\ WF_vars(ResumeChunk /\ UNCHANGED notBatch)

(* A call with a negative chunkSize. index then decreases for ever; the    *)
(* model follows the loop down to index = -MaxLoopDepth.                   *)
MaxNegative == 2
MaxLoopDepth == 4

NegativeChunkInit ==
    /\ CacheIdle
    /\ \E n \in 0..MaxOps : promises \in PromisesOfLength(n)
    /\ chunkSize \in (0 - MaxNegative)..(0 - 1)
    /\ bpc = "ready"
    /\ index = 0
    /\ chunk = << >>
    /\ awaited = {}
    /\ finalResults = [resolved |-> << >>, rejected |-> << >>]
    /\ order = << >>
    /\ ComposeIdle
    /\ OnceIdle
    /\ IsolationIdle

NegativeChunkNext ==
    \/ batchPromiseAllSettled /\ UNCHANGED notBatch
    \/ index + chunkSize >= 0 - MaxLoopDepth /\ ResumeChunk /\ UNCHANGED notBatch
    \/ \E i \in 1..MaxOps, b \in BOOLEAN : Settle(i, b) /\ UNCHANGED notBatch

NegativeChunkSpec == NegativeChunkInit /\ [][NegativeChunkNext]_vars

-----------------------------------------------------------------------------
(* composeAsync (src/functional.ts).                                       *)
(* A function is named by its position in composeAsync's argument list:    *)
(* composeAsync(f1, ..., fn) closes over funcs = <<1, ..., n>>. The value  *)
(* an invocation holds is determined by the functions it has called, in    *)
(* order: that sequence is applied[i].                                     *)

MaxFuncs == 3
MaxInvocations == 3

(* Array.prototype.reverse: the elements in the opposite order.            *)
Reverse(a) == [j \in 1..Len(a) |-> a[Len(a) + 1 - j]]

(* The composed function is called: funcs.reverse() reverses the array the *)
(* closure holds, in place, and the loop starts on that same array; the    *)
(* first function is called before the invocation suspends at its await.   *)
composed ==
    /\ cstarted < MaxInvocations
    /\ cstarted' = cstarted + 1
    /\ funcs' = Reverse(funcs)
    /\ IF Len(funcs') = 0
       THEN /\ cpc' = Append(cpc, "done")
            /\ cpos' = Append(cpos, 0)
            /\ applied' = Append(applied, << >>)
       ELSE /\ cpc' = Append(cpc, "awaiting")
            /\ cpos' = Append(cpos, 1)
            /\ applied' = Append(applied, <<funcs'[1]>>)

(* The promise invocation i awaits has settled and the invocation resumes: *)
(* a rejection rejects the invocation; otherwise the iterator reads the    *)
(* next element of the array as it is now, or ends the loop.               *)
composedResume(i, fulfils) ==
    /\ i \in 1..Len(cpc)
    /\ cpc[i] = "awaiting"
    /\ IF ~fulfils
       THEN /\ cpc' = [cpc EXCEPT ![i] = "rejected"]
            /\ UNCHANGED <<cpos, applied>>
       ELSE IF cpos[i] < Len(funcs)
       THEN /\ cpos' = [cpos EXCEPT ![i] = cpos[i] + 1]
            /\ applied' = [applied EXCEPT ![i] = Append(applied[i], funcs[cpos[i] + 1])]
            /\ UNCHANGED cpc
       ELSE /\ cpc' = [cpc EXCEPT ![i] = "done"]
            /\ UNCHANGED <<cpos, applied>>
    /\ UNCHANGED <<funcs, cstarted>>

ComposeInit ==
    /\ funcs \in {[j \in 1..n |-> j] : n \in 0..MaxFuncs}
    /\ cpc = << >>
    /\ cpos = << >>
    /\ applied = << >>
    /\ cstarted = 0
    /\ CacheIdle /\ BatchIdle /\ OnceIdle /\ IsolationIdle

ComposeNext ==
    \/ composed /\ UNCHANGED notCompose
    \/ \E i \in 1..MaxInvocations, b \in BOOLEAN : composedResume(i, b) /\ UNCHANGED notCompose

ComposeSpec == ComposeInit /\ [][ComposeNext]_vars

-----------------------------------------------------------------------------
(* once (src/functional.ts).                                               *)
(* The wrapper's calls are numbered in the order they are made. ostack     *)
(* holds the calls whose execution of func is running; a call of the       *)
(* wrapper made while ostack is not empty comes from inside func. None     *)
(* stands for undefined, the value of result before its assignment.        *)

MaxOnceCalls == 4

SetCalledOmitted == called

(* called = true                                                           *)
SetCalled == TRUE

(* The arguments the wrapper is called with.                               *)
OnceArgs == {"a1", "a2"}

(* How a call of the wrapper ended, as its caller sees it.                 *)
Returned(n, arg, v, in) ==
    [call |-> n, args |-> arg, outcome |-> "returned", value |-> v, inside |-> in]
Threw(n, arg, in) ==
    [call |-> n, args |-> arg, outcome |-> "threw", value |-> None, inside |-> in]

(* The wrapper is called. if (!called) { called = true; func(...args) is   *)
(* entered } else return result.                                           *)
onceWrapper(arg) ==
    /\ ocalls < MaxOnceCalls
    /\ ocalls' = ocalls + 1
    /\ IF ~called
       THEN /\ called' = SetCalled
            /\ ostack' = Append(ostack, [call |-> ocalls + 1, args |-> arg])
            /\ oexecs' = oexecs + 1
            /\ UNCHANGED <<oresult, olog>>
       ELSE /\ olog' = Append(olog, Returned(ocalls + 1, arg, oresult, ostack # << >>))
            /\ UNCHANGED <<called, oresult, ostack, oexecs>>

(* func returns v: result = v; return result.                              *)
funcReturns(v) ==
    /\ ostack # << >>
    /\ oresult' = v
    /\ ostack' = SubSeq(ostack, 1, Len(ostack) - 1)
    /\ olog' = Append(olog, Returned(ostack[Len(ostack)].call, ostack[Len(ostack)].args,
                                   v, Len(ostack) > 1))
    /\ UNCHANGED <<called, oexecs, ocalls>>

(* func throws: the assignment to result is not reached and the exception  *)
(* leaves the wrapper.                                                     *)
funcThrows ==
    /\ ostack # << >>
    /\ ostack' = SubSeq(ostack, 1, Len(ostack) - 1)
    /\ olog' = Append(olog, Threw(ostack[Len(ostack)].call, ostack[Len(ostack)].args,
                                Len(ostack) > 1))
    /\ UNCHANGED <<called, oresult, oexecs, ocalls>>

OnceInit == OnceIdle /\ CacheIdle /\ BatchIdle /\ ComposeIdle /\ IsolationIdle

OnceNext ==
    \/ \E arg \in OnceArgs : onceWrapper(arg) /\ UNCHANGED notOnce
    \/ \E v \in Values : funcReturns(v) /\ UNCHANGED notOnce
    \/ funcThrows /\ UNCHANGED notOnce

OnceSpec == OnceInit /\ [][OnceNext]_vars

-----------------------------------------------------------------------------
(* Two wrappers of the same function (asyncCache called twice).            *)
(* Each wrapper has one caller; both are constructed without ttl, so no    *)
(* entry expires, and the clock stays at its first reading.                *)

MaxWrapperCalls == 3

MapOfModule(w) == "w1"

(* const cache = new Map() runs in every call of asyncCache: the closure   *)
(* of wrapper w holds the Map made by the call that made w.                *)
MapOf(w) == w

WrapperNoOp == [op |-> "other", args |-> << >>, wrapper |-> "none"]

WrapperInFlight(w) == wpc[w] \in {"awaiting", "queued"}

(* memoizedFunc of wrapper w up to its first suspension.                   *)
memoizedFuncOf(w, args) ==
    /\ ~WrapperInFlight(w)
    /\ LET k == KeyOf(args)
           m == wcache[MapOf(w)]
       IN  IF k \in DOMAIN m /\ ~isEntryExpired(m[k].timestamp)
           THEN /\ wpc' = [wpc EXCEPT ![w] = "done"]
                /\ wresult' = [wresult EXCEPT ![w] = Ok(m[k].value)]
                /\ UNCHANGED <<wcalls, wqueue>>
           ELSE /\ wcalls < MaxWrapperCalls
                /\ wcalls' = wcalls + 1
                /\ \E fr \in FuncReturns :
                   CASE fr.kind = "throws" ->
                          /\ wpc' = [wpc EXCEPT ![w] = "failed"]
                          /\ wresult' = [wresult EXCEPT ![w] = Err(fr.value)]
                          /\ UNCHANGED wqueue
                     [] fr.kind = "value" ->
                          /\ wpc' = [wpc EXCEPT ![w] = "queued"]
                          /\ wresult' = [wresult EXCEPT ![w] = Ok(fr.value)]
                          /\ wqueue' = Append(wqueue, w)
                     [] fr.kind = "promise" ->
                          /\ wpc' = [wpc EXCEPT ![w] = "awaiting"]
                          /\ wresult' = [wresult EXCEPT ![w] = NoResult]
                          /\ UNCHANGED wqueue
    /\ wargs' = [wargs EXCEPT ![w] = args]
    /\ wlast' = WrapperNoOp
    /\ UNCHANGED wcache

(* The promise func returned to wrapper w's call settles.                  *)
FuncSettlesOf(w, outcome) ==
    /\ wpc[w] = "awaiting"
    /\ wpc' = [wpc EXCEPT ![w] = "queued"]
    /\ wresult' = [wresult EXCEPT ![w] = outcome]
    /\ wqueue' = Append(wqueue, w)
    /\ wlast' = WrapperNoOp
    /\ UNCHANGED <<wcache, wargs, wcalls>>

(* memoizedFunc after the await, for the oldest queued continuation.       *)
memoizedFuncResumeOf ==
    /\ Len(wqueue) > 0
    /\ LET w == Head(wqueue)
           k == KeyOf(wargs[w])
       IN  /\ wcache' = IF wresult[w].status = "fulfilled"
                        THEN [wcache EXCEPT ![MapOf(w)] =
                                CacheSet(@, k, [timestamp |-> now, value |-> wresult[w].value])]
                        ELSE wcache
           /\ wpc' = [wpc EXCEPT ![w] =
                        IF wresult[w].status = "fulfilled" THEN "done" ELSE "failed"]
    /\ wqueue' = Tail(wqueue)
    /\ wlast' = WrapperNoOp
    /\ UNCHANGED <<wargs, wresult, wcalls>>

(* deleteCache and clearCache of wrapper w.                                *)
deleteCacheOf(w, args) ==
    /\ wcache' = [wcache EXCEPT ![MapOf(w)] = CacheDelete(@, cacheKey(args))]
    /\ wlast' = [op |-> "delete", args |-> args, wrapper |-> w]
    /\ UNCHANGED <<wpc, wargs, wresult, wqueue, wcalls>>

clearCacheOf(w) ==
    /\ wcache' = [wcache EXCEPT ![MapOf(w)] = CacheClear(@)]
    /\ wlast' = [op |-> "clear", args |-> << >>, wrapper |-> w]
    /\ UNCHANGED <<wpc, wargs, wresult, wqueue, wcalls>>

IsolationInit == IsolationIdle /\ CacheIdle /\ BatchIdle /\ ComposeIdle /\ OnceIdle

IsolationNext ==
    \/ \E w \in Wrappers, a \in ArgLists : memoizedFuncOf(w, a) /\ UNCHANGED notIsolation
    \/ \E w \in Wrappers, o \in Outcomes : FuncSettlesOf(w, o) /\ UNCHANGED notIsolation
    \/ memoizedFuncResumeOf /\ UNCHANGED notIsolation
    \/ \E w \in Wrappers, a \in ArgLists : deleteCacheOf(w, a) /\ UNCHANGED notIsolation
    \/ \E w \in Wrappers : clearCacheOf(w) /\ UNCHANGED notIsolation

IsolationSpec == IsolationInit /\ [][IsolationNext]_vars

----------------------------------------------------------------------------
(* Properties of asyncCache, checked under Spec.                           *)

(* Caller c starts a call of the wrapper in this step (its arguments are   *)
(* then cargs'[c]): only memoizedFunc changes a caller that is not in      *)
(* flight.                                                                 *)
InvokeStep(c) ==
    /\ ~InFlight(c)
    /\ <<pc[c], cargs[c], result[c]>>' # <<pc[c], cargs[c], result[c]>>

(* The continuation of caller c's await runs in this step.                 *)
ResumeStep(c) == pc[c] = "queued" /\ pc'[c] # "queued"

AgeOf(k) == now - cache[k].timestamp

(* An entry exists for k and it is not expired: no TTL, or its age does    *)
(* not exceed the TTL.                                                     *)
Fresh(k) ==
    /\ k \in DOMAIN cache
    /\ (ttl = Undefined \/ AgeOf(k) <= ValueOf(ttl) * 60000)

InvokesFuncOnce(c) == fCalls' = [fCalls EXCEPT ![cargs'[c]] = @ + 1]

ServedFromCache(c) ==
    /\ fCalls' = fCalls
    /\ pc'[c] = "done"
    /\ result'[c] = Ok(cache[KeyOf(cargs'[c])].value)
    /\ cache' = cache

(* C1: a call whose key has an entry that is not expired (no TTL, or age   *)
(* within the TTL) returns the stored value and does not invoke func.      *)
C1_CacheHit ==
    [][\A c \in Callers :
          InvokeStep(c) /\ Fresh(KeyOf(cargs'[c])) => ServedFromCache(c)]_vars

C1_Witness ==
    \E c, d \in Callers :
        /\ c # d /\ pc[c] = "done" /\ pc[d] = "done"
        /\ cargs[c] = cargs[d] /\ result[c] = result[d]
        /\ TotalFCalls = 1
        /\ ttl # Undefined /\ now > 0
        /\ Fresh(KeyOf(cargs[c]))

(* C2: with a TTL of t minutes an entry is expired iff its age is strictly *)
(* greater than t*60000 ms: a call on an expired entry invokes func again  *)
(* and, func succeeding, replaces the entry; an entry aged exactly t*60000 *)
(* ms is still served.                                                     *)
C2_Expiry ==
    [][\A c \in Callers :
          LET k == KeyOf(cargs'[c])
          IN  /\ InvokeStep(c) /\ ttl # Undefined /\ k \in DOMAIN cache
                 => /\ AgeOf(k) > ValueOf(ttl) * 60000 => InvokesFuncOnce(c) /\ pc'[c] # "done"
                    /\ AgeOf(k) = ValueOf(ttl) * 60000 => ServedFromCache(c)
                    /\ AgeOf(k) < ValueOf(ttl) * 60000 => ServedFromCache(c)
              /\ ResumeStep(c) /\ result[c].status = "fulfilled"
                 => cache'[KeyOf(cargs[c])] = [timestamp |-> now, value |-> result[c].value]]_vars

(* A second call is in flight on an entry that the same caller wrote and   *)
(* that has expired since; the other caller never called.                  *)
C2_Witness ==
    \E c, d \in Callers :
        /\ c # d /\ pc[d] = "idle" /\ pc[c] = "awaiting"
        /\ fCalls[cargs[c]] = 2
        /\ ttl # Undefined
        /\ KeyOf(cargs[c]) \in DOMAIN cache
        /\ AgeOf(KeyOf(cargs[c])) = ValueOf(ttl) * 60000 + 1

(* C3: without a ttl an entry is served at every later time, however far   *)
(* the clock advances, as long as it is stored; func is not invoked again. *)
C3_NoTtlNeverExpires ==
    [][\A c \in Callers :
          InvokeStep(c) /\ ttl = Undefined /\ KeyOf(cargs'[c]) \in DOMAIN cache
              => ServedFromCache(c)]_vars

C3_Witness ==
    \E c, d \in Callers :
        /\ c # d /\ pc[c] = "done" /\ pc[d] = "done"
        /\ cargs[c] = cargs[d] /\ result[c] = result[d]
        /\ TotalFCalls = 1
        /\ ttl = Undefined /\ now = FarFuture
        /\ KeyOf(cargs[c]) \in DOMAIN cache
        /\ cache[KeyOf(cargs[c])].timestamp = 0

(* C4: when func throws or rejects, the call fails with func's error and   *)
(* the cache map is exactly what it was; no stored value is an error.      *)
C4_FailuresNeverCached ==
    /\ [](\A k \in DOMAIN cache : cache[k].value \in Values)
    /\ [][\A c \in Callers :
             /\ InvokeStep(c) /\ pc'[c] = "failed"
                => cache' = cache /\ result'[c].status = "rejected"
             /\ ResumeStep(c) /\ result[c].status = "rejected"
                => cache' = cache /\ pc'[c] = "failed" /\ result'[c] = result[c]
             /\ InvokeStep(c) /\ ~Fresh(KeyOf(cargs'[c])) => InvokesFuncOnce(c)]_vars

(* A caller's second call failed after the await, and the expired entry    *)
(* its first call wrote is still stored.                                   *)
C4_Witness ==
    \E c, d \in Callers :
        /\ c # d /\ pc[d] = "idle" /\ pc[c] = "failed"
        /\ result[c] \in {Err(e) : e \in Errors}
        /\ microtasks = << >>
        /\ fCalls[cargs[c]] = 2
        /\ KeyOf(cargs[c]) \in DOMAIN cache
        /\ ~Fresh(KeyOf(cargs[c]))

(* C5: deleteCache(args) removes exactly the entry under the key that a    *)
(* call with args uses, is a no-op when there is none, and leaves every    *)
(* other entry as it was; a call on an absent key invokes func.            *)
C5_DeleteScoped ==
    [][/\ lastOp'.op = "delete"
          => LET k == KeyOf(lastOp'.args)
             IN  /\ DOMAIN cache' = (DOMAIN cache) \ {k}
                 /\ \A x \in DOMAIN cache' : cache'[x] = cache[x]
       /\ \A c \in Callers :
             InvokeStep(c) /\ lastOp.op = "delete" /\ lastOp.args = cargs'[c]
                => InvokesFuncOnce(c)]_vars

C5_Witness ==
    \E c, d \in Callers :
        /\ c # d /\ pc[c] = "done" /\ pc[d] = "done"
        /\ cargs[c] # cargs[d]
        /\ fCalls[cargs[c]] = 1 /\ fCalls[cargs[d]] = 1
        /\ lastOp = [op |-> "delete", args |-> cargs[c]]
        /\ DOMAIN cache = {KeyOf(cargs[d])}
        /\ cache[KeyOf(cargs[d])].value = result[d].value

(* C6: right after clearCache() the cache map is empty, and a call made    *)
(* then invokes func, whatever its key.                                    *)
C6_ClearEmpties ==
    /\ [](lastOp.op = "clear" => DOMAIN cache = {})
    /\ [][\A c \in Callers :
             InvokeStep(c) /\ lastOp.op = "clear" => InvokesFuncOnce(c)]_vars

C6_Witness ==
    \E c, d \in Callers :
        /\ c # d /\ pc[c] = "done" /\ pc[d] = "done"
        /\ cargs[c] # cargs[d]
        /\ TotalFCalls = 2
        /\ ttl # Undefined /\ now = 0
        /\ lastOp.op = "clear"
        /\ DOMAIN cache = {}

(* C15: every call without arguments uses the key "genericKey": such a    *)
(* call is served from a non-expired entry under that key, writes under    *)
(* that key, and deleteCache() removes exactly that entry.                 *)
C15_ZeroArgumentSlot ==
    [][/\ \A c \in Callers :
             /\ InvokeStep(c) /\ cargs'[c] = << >> /\ Fresh("genericKey")
                => /\ fCalls' = fCalls
                   /\ pc'[c] = "done"
                   /\ result'[c] = Ok(cache["genericKey"].value)
             /\ ResumeStep(c) /\ cargs[c] = << >> /\ result[c].status = "fulfilled"
                => cache' = CacheSet(cache, "genericKey",
                                     [timestamp |-> now, value |-> result[c].value])
       /\ lastOp'.op = "delete" /\ lastOp'.args = << >>
             => cache' = CacheDelete(cache, "genericKey")]_vars

C15_Witness ==
    \E c, d \in Callers :
        /\ c # d /\ pc[c] = "done" /\ pc[d] = "done"
        /\ cargs[c] = << >> /\ cargs[d] = << >>
        /\ result[c] = result[d]
        /\ TotalFCalls = 1
        /\ DOMAIN cache = {"genericKey"}

(* Two argument lists are structurally equal: as long, and each object     *)
(* with the same properties and values, in whatever order.                 *)
StructurallyEqual(a, b) ==
    /\ Len(a) = Len(b)
    /\ \A i \in 1..Len(a) :
          /\ a[i][1] = b[i][1]
          /\ IF a[i][1] = "object" THEN Range(a[i][2]) = Range(b[i][2])
             ELSE a[i][2] = b[i][2]

(* C16: a call whose arguments are structurally equal to those of a stored *)
(* non-expired entry is served from it and does not invoke func. (The code *)
(* keys by JSON.stringify, which follows the insertion order.)             *)
C16_KeyingByValue ==
    [][\A c \in Callers :
          InvokeStep(c)
              /\ (\E b \in DOMAIN fCalls :
                     StructurallyEqual(b, cargs'[c]) /\ Fresh(KeyOf(b)))
              => fCalls' = fCalls /\ pc'[c] = "done"]_vars

(* C20: when func resolved after a miss or an expired entry, the write     *)
(* leaves one entry under the call's key, with func's result as value and  *)
(* the clock reading of the write as timestamp; the entries of all other   *)
(* keys are unchanged, and the call returns the result.                    *)
C20_MissWrite ==
    [][\A c \in Callers :
          ResumeStep(c) /\ result[c].status = "fulfilled"
              => LET k == KeyOf(cargs[c])
                 IN  /\ DOMAIN cache' = (DOMAIN cache) \cup {k}
                     /\ cache'[k].value = result[c].value
                     /\ cache'[k].timestamp = now
                     /\ now' = now
                     /\ \A x \in (DOMAIN cache) \ {k} : cache'[x] = cache[x]
                     /\ pc'[c] = "done" /\ result'[c] = result[c]]_vars

(* A second call replaced the expired entry of the first: the new entry    *)
(* carries the later clock reading.                                        *)
C20_Witness ==
    \E c, d \in Callers :
        /\ c # d /\ pc[d] = "idle" /\ pc[c] = "done"
        /\ fCalls[cargs[c]] = 2
        /\ ttl # Undefined
        /\ lastOp = NoOp
        /\ DOMAIN cache = {KeyOf(cargs[c])}
        /\ cache[KeyOf(cargs[c])] = [timestamp |-> now, value |-> result[c].value]
        /\ now > ValueOf(ttl) * 60000

(* C21: the map changes only in the write after a successful func, in     *)
(* deleteCache and in clearCache. A call of the wrapper leaves the map as   *)
(* it is up to its await, so a hit does not refresh the timestamp; the      *)
(* clock moving on leaves every entry, expired or not, stored as it was.    *)
C21_CacheFrame ==
    [][/\ cache' # cache
             => \/ \E c \in Callers : ResumeStep(c) /\ result[c].status = "fulfilled"
                \/ lastOp'.op \in {"delete", "clear"}
       /\ \A c \in Callers : InvokeStep(c) => cache' = cache
       /\ now' # now => cache' = cache]_vars

(* An entry was written at 0 and served to the other caller; the clock is  *)
(* now past the entry's TTL and the entry is stored as it was written.      *)
C21_Witness ==
    \E c, d \in Callers :
        /\ c # d /\ pc[c] = "done" /\ pc[d] = "done"
        /\ cargs[c] = cargs[d] /\ result[c] = result[d]
        /\ TotalFCalls = 1
        /\ ttl # Undefined
        /\ DOMAIN cache = {KeyOf(cargs[c])}
        /\ cache[KeyOf(cargs[c])] = [timestamp |-> 0, value |-> result[c].value]
        /\ now > ValueOf(ttl) * 60000
        /\ lastOp = NoOp

(* C22: deleteCache and clearCache leave the calls in flight as they are,  *)
(* and a call that was in flight during one still writes its entry when it  *)
(* resumes: right after an invalidation, with no call made since, the map   *)
(* gets the entry of a computation that began before the invalidation.      *)
C22_InvalidationDoesNotCancel ==
    /\ [](microtasks # << >> => ENABLED (memoizedFuncResume /\ UNCHANGED notCache))
    /\ [][/\ lastOp'.op \in {"delete", "clear"}
                => <<pc, cargs, result, microtasks, fCalls>>' = <<pc, cargs, result, microtasks, fCalls>>
          /\ \A c \in Callers :
                ResumeStep(c) /\ result[c].status = "fulfilled"
                    /\ lastOp.op \in {"delete", "clear"}
                    => /\ KeyOf(cargs[c]) \in DOMAIN cache'
                       /\ cache'[KeyOf(cargs[c])].value = result[c].value
                       /\ fCalls' = fCalls
                       /\ lastOp.op = "clear" => DOMAIN cache' = {KeyOf(cargs[c])}]_vars

(* func was invoked once and has resolved; the map was then cleared, or    *)
(* the call's key deleted, while the call's continuation is still queued.   *)
C22_Witness ==
    \E c, d \in Callers :
        /\ c # d /\ pc[d] = "idle"
        /\ pc[c] = "queued" /\ result[c].status = "fulfilled"
        /\ TotalFCalls = 1
        /\ \/ lastOp.op = "clear"
           \/ lastOp.op = "delete" /\ cacheKey(lastOp.args) = KeyOf(cargs[c])
        /\ cache = EmptyMap

(* The entry under the key of the calls without arguments, if any.         *)
GenericSlot(m) == IF "genericKey" \in DOMAIN m THEN <<m["genericKey"]>> ELSE << >>

(* C25: no argument list of one or more arguments has the key "genericKey" *)
(* (not even the one string "genericKey"): a call with arguments is served *)
(* only from the entry of JSON.stringify(args), its write and a            *)
(* deleteCache with arguments leave the "genericKey" entry as it was, and  *)
(* a call without arguments is served only from the "genericKey" entry.    *)
C25_SentinelNotDerivable ==
    /\ [](\A a \in DOMAIN fCalls :
             Len(a) > 0 => KeyOf(a) # "genericKey" /\ cacheKey(a) # "genericKey")
    /\ [][/\ \A c \in Callers :
                /\ InvokeStep(c) /\ Len(cargs'[c]) > 0 /\ fCalls' = fCalls
                      => /\ JSONstringify(cargs'[c]) \in DOMAIN cache
                         /\ result'[c] = Ok(cache[JSONstringify(cargs'[c])].value)
                /\ InvokeStep(c) /\ Len(cargs'[c]) > 0 /\ fCalls' # fCalls
                      => JSONstringify(cargs'[c]) \notin DOMAIN cache
                            \/ ~Fresh(JSONstringify(cargs'[c]))
                /\ ResumeStep(c) /\ Len(cargs[c]) > 0
                      => GenericSlot(cache') = GenericSlot(cache)
                /\ InvokeStep(c) /\ Len(cargs'[c]) = 0 /\ fCalls' = fCalls
                      => /\ "genericKey" \in DOMAIN cache
                         /\ result'[c] = Ok(cache["genericKey"].value)
          /\ lastOp'.op = "delete" /\ Len(lastOp'.args) > 0
                => GenericSlot(cache') = GenericSlot(cache)]_vars

(* A call without arguments and a call with the one argument "genericKey"  *)
(* each invoked func and each has its own entry, with different values.     *)
C25_Witness ==
    \E c, d \in Callers :
        /\ pc[c] = "done" /\ pc[d] = "done"
        /\ cargs[c] = << >> /\ cargs[d] = <<Str("genericKey")>>
        /\ fCalls[cargs[c]] = 1 /\ fCalls[cargs[d]] = 1
        /\ DOMAIN cache = {"genericKey", "[\"genericKey\"]"}
        /\ cache["genericKey"].value = result[c].value
        /\ cache["[\"genericKey\"]"].value = result[d].value
        /\ result[c].value # result[d].value

QueuedOn(k) == {c \in Callers : pc[c] = "queued" /\ KeyOf(cargs[c]) = k}

(* C7: a call issued while another call on the same key is in flight (the  *)
(* entry absent or expired) invokes func itself; every call whose func     *)
(* resolved writes the entry; once no continuation for the key is queued,  *)
(* a stored entry holds the value of the call whose func completed last.   *)
C7_NoDeduplication ==
    /\ [](\A k \in Keys :
            k \in DOMAIN cache /\ QueuedOn(k) = {} /\ lastValue[k] # None
                => cache[k].value = lastValue[k])
    /\ [][\A c \in Callers :
             /\ InvokeStep(c) /\ ~Fresh(KeyOf(cargs'[c]))
                   /\ (\E d \in Callers \ {c} : InFlight(d) /\ cargs[d] = cargs'[c])
                => InvokesFuncOnce(c)
             /\ ResumeStep(c) /\ result[c].status = "fulfilled"
                => cache' = CacheSet(cache, KeyOf(cargs[c]),
                                     [timestamp |-> now, value |-> result[c].value])]_vars

(* Two calls on one key overlapped; the one issued first completed last    *)
(* and its value is the one stored.                                        *)
C7_Witness ==
    \E c, d \in Callers :
        /\ c # d /\ pc[c] = "done" /\ pc[d] = "done"
        /\ cargs[c] = cargs[d]
        /\ fCalls[cargs[c]] = 2
        /\ raced[KeyOf(cargs[c])] = c
        /\ result[c] # result[d]
        /\ KeyOf(cargs[c]) \in DOMAIN cache
        /\ cache[KeyOf(cargs[c])].value = result[c].value

----------------------------------------------------------------------------
(* Properties of batchPromiseAllSettled, checked under BatchSpec.          *)

N == Len(promises)
Collected == finalResults.resolved \o finalResults.rejected
TimesCollected(i) == Cardinality({j \in 1..Len(Collected) : Collected[j][2] = i})

(* C8: when the call has returned, with chunkSize one of 0, 1, N, N+1,     *)
(* resolved.length + rejected.length = N and every operation is counted    *)
(* exactly once.                                                           *)
C8_AggregateCompleteness ==
    bpc = "returned" /\ chunkSize \in {0, 1, N, N + 1}
        => /\ Len(finalResults.resolved) + Len(finalResults.rejected) = N
           /\ \A i \in 1..N : TimesCollected(i) = 1

C8_Witness ==
    /\ bpc = "returned"
    /\ N = MaxOps /\ chunkSize = 1
    /\ Len(finalResults.resolved) >= 1
    /\ Len(finalResults.rejected) >= 1

(* C9: the call never rejects, whatever chunkSize >= 0 and however many    *)
(* operations reject; resolved holds only values of fulfilled operations   *)
(* and rejected only reasons of rejected ones, and on return each          *)
(* operation's value or reason is in its collection.                       *)
C9_NeverFailsAsAWhole ==
    /\ bpc # "rejected"
    /\ \A j \in 1..Len(finalResults.resolved) :
          \E i \in 1..N : /\ promises[i].status = "fulfilled"
                          /\ finalResults.resolved[j] = ValueOfOp(i)
    /\ \A j \in 1..Len(finalResults.rejected) :
          \E i \in 1..N : /\ promises[i].status = "rejected"
                          /\ finalResults.rejected[j] = ReasonOfOp(i)
    /\ bpc = "returned"
          => \A i \in 1..N :
                /\ promises[i].status = "fulfilled" => ValueOfOp(i) \in Range(finalResults.resolved)
                /\ promises[i].status = "rejected" => ReasonOfOp(i) \in Range(finalResults.rejected)

(* Every operation rejected, and the call returned all the reasons.        *)
C9_Witness ==
    /\ bpc = "returned"
    /\ N = MaxOps /\ chunkSize \in 1..(N - 1)
    /\ \A i \in 1..N : promises[i].status = "rejected"
    /\ Len(finalResults.rejected) = N
    /\ finalResults.resolved = << >>

(* The window of the operation at position i (from 1), for chunkSize > 0.  *)
WindowOf(i) == (i - 1) \div chunkSize

(* C10: for chunkSize > 0 no operation is awaited before every operation   *)
(* of the earlier windows has settled; with chunkSize = 1 the operations   *)
(* are awaited one at a time, in input order.                              *)
C10_SequentialWindowing ==
    chunkSize > 0
        => /\ \A i \in awaited : \A j \in 1..N :
                 WindowOf(j) < WindowOf(i) => promises[j].status # "pending"
           /\ chunkSize = 1
                 => /\ awaited = 1..Cardinality(awaited)
                    /\ Cardinality({i \in awaited : promises[i].status = "pending"}) <= 1

(* The second window is being awaited, the first having settled, while an  *)
(* operation of the second window has settled already and another not.     *)
C10_Witness ==
    /\ bpc = "awaitChunk"
    /\ N = MaxOps /\ chunkSize = 1
    /\ awaited = {1, 2}
    /\ promises[2].status = "pending"
    /\ promises[3].status # "pending"

(* The least number of windows of k operations that hold n operations.    *)
CeilDiv(n, k) == (n + k - 1) \div k

(* C23: for chunkSize k > 0 the windows are the consecutive slices [0,k),  *)
(* [k,2k), ... of the input, in order: the window awaited starts at a      *)
(* multiple of k, holds the next k operations, or the 1..k that are left   *)
(* when it is the last, and none of an earlier window; on return           *)
(* ceil(N/k) windows were awaited and every operation was in one.          *)
C23_WindowPartition ==
    chunkSize > 0
        => /\ bpc = "awaitChunk"
                 => /\ index % chunkSize = 0 /\ index < N
                    /\ chunk = [j \in 1..Min(chunkSize, N - index) |-> index + j]
                    /\ Len(chunk) >= 1 /\ Len(chunk) <= chunkSize
                    /\ index + chunkSize < N => Len(chunk) = chunkSize
                    /\ awaited \ Range(chunk) = 1..index
           /\ bpc = "returned"
                 => /\ awaited = 1..N
                    /\ index = CeilDiv(N, chunkSize) * chunkSize

(* Four operations in windows of three: the second and last window held    *)
(* one operation; two windows were awaited.                                 *)
C23_Witness ==
    /\ bpc = "returned"
    /\ N = 4 /\ chunkSize = 3
    /\ index = 6
    /\ Len(Collected) = 4

AllOperationsSettled == \A i \in 1..N : promises[i].status # "pending"

(* C24: for chunkSize >= 0, once every supplied operation has settled the  *)
(* call eventually returns; and it has returned only when every operation  *)
(* has settled, so with an operation that never settles it never returns.  *)
C24_Termination ==
    /\ [](bpc = "returned" => AllOperationsSettled)
    /\ AllOperationsSettled ~> bpc = "returned"

(* The call returned after operations settled during it, in windows.       *)
C24_Witness ==
    /\ bpc = "returned"
    /\ N = MaxOps /\ chunkSize = 2
    /\ Len(order) = N
    /\ AllOperationsSettled

(* C11: for an empty promises array and every chunkSize >= 0 the call      *)
(* awaits no operation, never rejects, is not kept waiting, and returns    *)
(* {resolved: [], rejected: []}.                                           *)
C11_EmptyInput ==
    N = 0 /\ chunkSize >= 0
        => /\ awaited = {}
           /\ finalResults = [resolved |-> << >>, rejected |-> << >>]
           /\ bpc # "rejected"
           /\ bpc \in {"awaitAll", "awaitChunk"} => AllSettled(chunk) = "fulfilled"

C11_Witness ==
    /\ N = 0 /\ chunkSize \in ChunkSizes
    /\ bpc = "returned"
    /\ finalResults = [resolved |-> << >>, rejected |-> << >>]

(* What the chunkSize = 0 branch returns for the promises as they settled. *)
ResultOfSingleWindow ==
    PushResults([resolved |-> << >>, rejected |-> << >>],
                AllSettledResults([j \in 1..N |-> j]))

(* C12: with chunkSize >= promises.length all promises are awaited in one  *)
(* window, and the call returns what the chunkSize = 0 call returns for    *)
(* the same promises.                                                      *)
C12_LargeChunkIsSingleWindow ==
    /\ chunkSize >= N /\ bpc = "awaitChunk"
          => index = 0 /\ chunk = [j \in 1..N |-> j]
    /\ (chunkSize >= N \/ chunkSize = 0) /\ bpc = "returned"
          => /\ finalResults = ResultOfSingleWindow
             /\ awaited = 1..N

C12_Witness ==
    /\ bpc = "returned"
    /\ N = MaxOps /\ chunkSize = N
    /\ Len(finalResults.resolved) >= 1
    /\ Len(finalResults.rejected) >= 1

(* The values (status "fulfilled") or reasons (status "rejected") of the   *)
(* first n promises, in input order.                                       *)
RECURSIVE InInputOrder(_, _)
InInputOrder(n, status) ==
    IF n = 0 THEN << >>
    ELSE IF promises[n].status = status
         THEN Append(InInputOrder(n - 1, status), promises[n].value)
         ELSE InInputOrder(n - 1, status)

(* How many promises the call has collected: all on return, the windows    *)
(* before index while a chunk is awaited, none before.                     *)
CollectedUpTo ==
    CASE bpc = "returned" -> N
      [] bpc = "awaitChunk" -> Min(index, N)
      [] OTHER -> 0

(* C13: for every chunkSize >= 0, resolved holds the values of the         *)
(* fulfilled promises and rejected the reasons of the rejected ones, each  *)
(* in input order, window after window, whatever the order of settling.    *)
C13_OutputOrder ==
    chunkSize >= 0 /\ bpc # "rejected"
        => /\ finalResults.resolved = InInputOrder(CollectedUpTo, "fulfilled")
           /\ finalResults.rejected = InInputOrder(CollectedUpTo, "rejected")

(* The documented example: ok@1000, fail@2000, ok@1500, fail@3000 with     *)
(* chunkSize 2, the promises settling in the order 1, 3, 2, 4.             *)
C13_Witness ==
    /\ bpc = "returned"
    /\ N = 4 /\ chunkSize = 2
    /\ order = <<1, 3, 2, 4>>
    /\ finalResults = [resolved |-> <<ValueOfOp(1), ValueOfOp(3)>>,
                       rejected |-> <<ReasonOfOp(2), ReasonOfOp(4)>>]

(* C14: a call with a negative chunkSize is rejected. (The code has no     *)
(* such check.)                                                            *)
C14_NegativeChunkSizeRejected ==
    chunkSize < 0 /\ bpc # "ready" => bpc = "rejected"

RightToLeft(n) == [j \in 1..n |-> n + 1 - j]

(* C18: every invocation of the composed function applies the functions    *)
(* from right to left: what it has called so far is the beginning of       *)
(* <<n, ..., 1>>, and all of it once the invocation has returned. (The     *)
(* code reverses the shared array on every invocation.)                    *)
C18_RightToLeftOnEveryInvocation ==
    \A i \in 1..Len(cpc) :
        /\ Len(applied[i]) <= Len(funcs)
        /\ applied[i] = SubSeq(RightToLeft(Len(funcs)), 1, Len(applied[i]))
        /\ cpc[i] = "done" => Len(applied[i]) = Len(funcs)

(* The value the first call produced when this entry of the log was        *)
(* written: func's return value once the first call has returned, and      *)
(* undefined before that or when func threw.                               *)
FirstValueAt(j) ==
    IF \E i \in 1..(j - 1) : olog[i].call = 1 /\ olog[i].outcome = "returned"
    THEN (CHOOSE e \in {olog[i] : i \in 1..(j - 1)} : e.call = 1).value
    ELSE None

WrapperInvokeStep(w) ==
    /\ ~WrapperInFlight(w)
    /\ <<wpc[w], wargs[w], wresult[w]>>' # <<wpc[w], wargs[w], wresult[w]>>
WrapperResumeStep(w) == wpc[w] = "queued" /\ wpc'[w] # "queued"

(* C26: each wrapper has its own entries. A call of wrapper w is served    *)
(* only from w's entries and invokes func when w has no entry for the key, *)
(* whatever the other wrapper holds; the write of w's call, and            *)
(* deleteCache and clearCache of w, leave the other wrapper's entries as   *)
(* they were.                                                              *)
C26_WrapperIsolation ==
    [][\A w \in Wrappers :
          LET others == [v \in Wrappers \ {w} |-> wcache[v]]
              othersAfter == [v \in Wrappers \ {w} |-> wcache'[v]]
          IN  /\ WrapperInvokeStep(w)
                    => /\ wcache' = wcache
                       /\ IF KeyOf(wargs'[w]) \in DOMAIN wcache[w]
                          THEN /\ wcalls' = wcalls
                               /\ wresult'[w] = Ok(wcache[w][KeyOf(wargs'[w])].value)
                          ELSE wcalls' = wcalls + 1
              /\ WrapperResumeStep(w)
                    => /\ othersAfter = others
                       /\ wresult[w].status = "fulfilled"
                             => /\ KeyOf(wargs[w]) \in DOMAIN wcache'[w]
                                /\ wcache'[w][KeyOf(wargs[w])].value = wresult[w].value
              /\ wlast'.wrapper = w
                    => /\ othersAfter = others
                       /\ wlast'.op = "clear" => wcache'[w] = << >>
                       /\ wlast'.op = "delete"
                             => wcache'[w] = CacheDelete(wcache[w], cacheKey(wlast'.args))]_vars

(* Both wrappers were called with the same arguments and each invoked      *)
(* func; the first wrapper was then cleared, and the second still holds    *)
(* its entry, of a different value than the first call returned.           *)
C26_Witness ==
    /\ wpc["w1"] = "done" /\ wpc["w2"] = "done"
    /\ wargs["w1"] = wargs["w2"]
    /\ wcalls = 2
    /\ wresult["w1"].value # wresult["w2"].value
    /\ wlast = [op |-> "clear", args |-> << >>, wrapper |-> "w1"]
    /\ wcache["w1"] = << >>
    /\ DOMAIN wcache["w2"] = {KeyOf(wargs["w2"])}
    /\ wcache["w2"][KeyOf(wargs["w2"])].value = wresult["w2"].value

====
